---- MODULE Spec2Model ----
(***************************************************************************)
(* Dispatch engine of refluxio: createStore (state cell, listener Set,     *)
(* baseDispatch, subscribe) and applyMiddleware (guardedDispatch, the      *)
(* capability dispatch and the composed chain).  Calls are modelled with   *)
(* an explicit call stack; one action per handler step.                    *)
(***************************************************************************)
EXTENDS Integers, Sequences, FiniteSets, TLC

\* ------------------------------------------------------------------ bounds
MaxAlloc == 2          \* state objects the reducer may allocate in one run
MaxCaps == 2           \* subscribe() calls in one run
MaxNest == 1           \* nested listener / reducer runs that still dispatch

Listeners == {1, 2}    \* listener function identities
Empty == 0             \* a deleted entry of the Set's entry list

VARIABLES
    chain,         \* middlewares given to applyMiddleware (kinds, in order)
    hasPipe,       \* applyMiddleware has built a pipeline for this store
    storeDispatch, \* what the property store.dispatch refers to
    currentState,  \* createStore: let currentState
    listeners,     \* createStore: const listeners (Set, as its entry list)
    isReducing,    \* applyMiddleware: let isReducing
    nextId,        \* identity of the next object the reducer allocates
    caps,          \* unsubscribe closures returned so far
    stack,         \* call stack, innermost frame last
    exc,           \* error being thrown / thrown by the last outer call
    top,           \* the outermost call in progress or last finished
    log,           \* events observed during the outermost call
    done,          \* the most recently completed baseDispatch
    unsubbed,      \* listeners removed by a capability and not re-added
    lastOp,        \* the last subscribe/unsubscribe performed
    dispatchRef,   \* applyMiddleware: let dispatch (placeholder or composed)
    built,         \* applyMiddleware: middleware constructors run by chain.map
    timers,        \* thunks suspended at an await, with the place to resume
    cells,         \* several stores: each store's state cell and listener Set
    isoCaps,       \* several stores: unsubscribe closures returned so far
    isoLast,       \* several stores: the last operation and whom it invoked
    cmp            \* comparator: the two values compared and the results

\* The variables outside the dispatch engine of one constructed store.
ext == <<dispatchRef, built, timers, cells, isoCaps, isoLast, cmp>>

vars == <<chain, hasPipe, storeDispatch, currentState, listeners, isReducing,
          nextId, caps, stack, exc, top, log, done, unsubbed, lastOp, ext>>

\* ----------------------------------------------------------------- values
\* A state object {count: n}; id is the object's identity (its reference).
Obj(id, n) == [id |-> id, count |-> n]
NoState == Obj(0, 0)
initialState == Obj(1, 0)

\* Actions: plain {type, payload} records and thunks (callables).
PlainAction(t, p) == [fn |-> FALSE, type |-> t, payload |-> p, body |-> <<>>]
ThunkAction(body) == [fn |-> TRUE, type |-> "undefined", payload |-> 0, body |-> body]
NoAction == PlainAction("none", 0)
PlainActions == {PlainAction("inc", 0), PlainAction("noop", 0),
                 PlainAction("clone", 0)}
Thunks == {ThunkAction(<<PlainAction("inc", 0)>>)}
Actions == PlainActions \cup Thunks
\* What a listener, or a reducer that is not pure, dispatches
\* (create-store.test.ts:189-193).
ListenerActions == {PlainAction("inc", 0)}

\* The place in a thunk's body where it awaits a timer (a step, not an action).
Await == PlainAction("await", 0)

\* A reducer that never throws.
NeverThrows(action) == FALSE

\* The reducer throws on this action.
Throws(action) == action.type = "boom"

\* typeof action === "function"
IsFunction(a) == a.fn

\* Middleware kinds.
\*   pass  : () => (next) => (action) => { before; r = next(action); after; return r }
\*   thunk : ({dispatch,getState}) => (next) => (action) =>
\*             typeof action === "function" ? action(dispatch,getState) : next(action)
Chains == {<<>>, <<"pass", "pass">>, <<"thunk">>}

\* ------------------------------------------------------------ pure helpers
\* The reducer of the test suites: inc / add allocate a new object, clone
\* allocates an equal copy, anything else (a thunk included: its .type is
\* undefined) returns the state it was given.
reducer(state, action, id) ==
    CASE action.type = "inc" -> Obj(id, state.count + 1)
      [] action.type = "add" -> Obj(id, state.count + action.payload)
      [] action.type = "clone" -> Obj(id, state.count)
      [] OTHER -> state

Allocates(action) == action.type \in {"inc", "add", "clone"}

\* Object.is on two state objects: same reference.
ObjectIs(a, b) == a.id = b.id

\* Reference equality only, in place of the structural comparison.
deepEqualByReference(a, b) == ObjectIs(a, b)

\* deepEqual restricted to the state type {count: number}: identical
\* references are equal; otherwise both are plain objects with the same
\* prototype, and every key of a must be in b with an identical value and
\* the key counts must agree (both have the single key "count").
deepEqual(a, b) ==
    IF ObjectIs(a, b) THEN TRUE
    ELSE a.count = b.count

\* An add on a list instead of a Set: the value is appended in any case.
SetAddAlways(S, l) == Append(S, l)

\* Set.prototype.add: append unless the value is already an entry.
SetAdd(S, l) ==
    IF \E k \in 1..Len(S) : S[k] = l THEN S ELSE Append(S, l)

\* A delete that toggles: an absent value is put back.
SetDeleteToggle(S, l) ==
    IF \E k \in 1..Len(S) : S[k] = l
    THEN [k \in 1..Len(S) |-> IF S[k] = l THEN Empty ELSE S[k]]
    ELSE Append(S, l)

\* A delete that closes the gap: later entries move down one place.
SetDeleteCompact(S, l) == SelectSeq(S, LAMBDA e : e # l)

\* Set.prototype.delete: the entry is emptied, later entries keep their place.
SetDelete(S, l) == [k \in 1..Len(S) |-> IF S[k] = l THEN Empty ELSE S[k]]

\* The values of a Set in iteration order.
SetValues(S) == SelectSeq(S, LAMBDA e : e # Empty)
SetMembers(S) == {S[k] : k \in 1..Len(S)} \ {Empty}

\* ------------------------------------------------------------------ frames
NoHist == [pre |-> NoState, res |-> NoState, reg |-> <<>>, invoked |-> <<>>,
           quiet |-> TRUE]
Frame(t, a, pc, i, l, arg, h) ==
    [t |-> t, a |-> a, pc |-> pc, i |-> i, l |-> l, arg |-> arg, ops |-> 0, h |-> h]

MwFrame(i, a) == Frame("mw", a, "before", i, 0, NoState, NoHist)
GuardedFrame(a) == Frame("guarded", a, "enter", 0, 0, NoState, NoHist)
BaseFrame(a) == Frame("base", a, "reduce", 0, 0, NoState, NoHist)
ListenerFrame(l, arg) == Frame("listener", NoAction, "run", 0, l, arg, NoHist)
ThunkFrame(a) == Frame("thunk", a, "run", 1, 0, NoState, NoHist)

Top == stack[Len(stack)]
\* Number of frames of kind t on the stack.
Count(t) == Cardinality({k \in 1..Len(stack) : stack[k].t = t})
Pop == SubSeq(stack, 1, Len(stack) - 1)
ReplaceTop(f) == [stack EXCEPT ![Len(stack)] = f]

\* The composed dispatch returned by applyMiddleware: the first middleware's
\* layer, or guardedDispatch itself when the chain is empty.
dispatch(a) == IF Len(chain) > 0 THEN MwFrame(1, a) ELSE GuardedFrame(a)

\* A placeholder that lets the call through to guardedDispatch.
PlaceholderForwards == FALSE

\* The placeholder dispatch throws when it is invoked.
PlaceholderThrows == TRUE

PlaceholderFrame(a) == Frame("placeholder", a, "enter", 0, 0, NoState, NoHist)

\* dispatch(action) inside applyMiddleware: the variable is read when the
\* call is made; it holds the placeholder until the chain is composed.
dispatchVar(a) ==
    IF dispatchRef = "placeholder" THEN PlaceholderFrame(a) ELSE dispatch(a)

\* store.dispatch(action): the property is looked up when the call is made.
StoreDispatch(a) == IF storeDispatch = "base" THEN BaseFrame(a) ELSE dispatch(a)

\* next(action) of layer i: the following layer, or guardedDispatch.
NextOf(i, a) == IF i < Len(chain) THEN MwFrame(i + 1, a) ELSE GuardedFrame(a)

Entry(e, a) == IF e = "store" THEN StoreDispatch(a) ELSE dispatch(a)
Entries == {"store", "pipe"}

Event(e, n) == [e |-> e, n |-> n]

\* ------------------------------------------------------------ construction
\* createStore(reducer, initialState, middlewares): with a non-empty list
\* store.dispatch is overwritten by the result of applyMiddleware(store, ..).
createStore(mws) ==
    /\ currentState = initialState
    /\ listeners = <<>>
    /\ chain = mws
    /\ hasPipe = (Len(mws) > 0)
    /\ storeDispatch = IF Len(mws) > 0 THEN "pipe" ELSE "base"

\* createStore(reducer, initialState) followed by applyMiddleware(store, mws),
\* as the middleware tests do: store.dispatch stays the base dispatch.
applyMiddleware(mws) ==
    /\ currentState = initialState
    /\ listeners = <<>>
    /\ chain = mws
    /\ hasPipe = TRUE
    /\ storeDispatch = "base"

NoTop == [op |-> "none", e |-> "store", a |-> NoAction, pre |-> NoState]
NoDone == [a |-> NoAction, pre |-> NoState, res |-> NoState, post |-> NoState,
           reg |-> <<>>, invoked |-> <<>>, quiet |-> TRUE, valid |-> FALSE]
NoOp == [op |-> "none", l |-> 0, c |-> 0, again |-> FALSE, resub |-> FALSE,
         tick |-> FALSE]

\* Nothing is being compared.
NoCmp == [a |-> 0, b |-> 0, phase |-> "none", ab |-> FALSE, ba |-> FALSE]

NoIsoOp == [op |-> "none", s |-> 0, calls |-> <<>>]

Init ==
    /\ \E mws \in Chains : createStore(mws) \/ applyMiddleware(mws)
    /\ isReducing = FALSE
    /\ nextId = 2
    /\ caps = <<>>
    /\ stack = <<>>
    /\ exc = "none"
    /\ top = NoTop
    /\ log = <<>>
    /\ done = NoDone
    /\ unsubbed = {}
    /\ lastOp = NoOp
    /\ dispatchRef = "composed"
    /\ built = Len(chain)
    /\ timers = <<>>
    /\ cells = <<>>
    /\ isoCaps = <<>>
    /\ isoLast = NoIsoOp
    /\ cmp = NoCmp

\* ------------------------------------------------------------------ callers
\* Store operations are called by outside code (empty stack) or by a
\* listener during its invocation; one invocation calls the store at most
\* once.
Caller ==
    \/ stack = <<>>
    \/ /\ stack # <<>>
       /\ exc = "none"
       /\ Top.t = "listener"
       /\ Top.ops = 0

\* The caller's frame counts the operation; every notification pass on the
\* stack has now had a listener that called the store.
Disturb(stk) ==
    [k \in 1..Len(stk) |->
        IF stk[k].t = "base" THEN [stk[k] EXCEPT !.h.quiet = FALSE]
        ELSE IF k = Len(stk) THEN [stk[k] EXCEPT !.ops = @ + 1]
        ELSE stk[k]]

getState == currentState

\* store.dispatch(action) or the pipeline's dispatch(action), called by
\* outside code or by a listener.
Dispatch(e, a) ==
    /\ Caller
    /\ e = "pipe" => hasPipe
    /\ stack # <<>> => a \in ListenerActions
    /\ Count("listener") <= MaxNest
    /\ stack' = Append(Disturb(stack), Entry(e, a))
    /\ exc' = "none"
    /\ top' = IF stack = <<>>
              THEN [op |-> "dispatch", e |-> IF storeDispatch = "pipe" THEN "pipe" ELSE e,
                    a |-> a, pre |-> currentState]
              ELSE top
    /\ log' = IF stack = <<>> THEN <<>> ELSE Append(log, Event("op", Top.l))
    /\ done' = IF stack = <<>> THEN NoDone ELSE done
    /\ lastOp' = IF stack = <<>> THEN NoOp ELSE lastOp
    /\ UNCHANGED <<ext, chain, hasPipe, storeDispatch, currentState, listeners,
                   isReducing, nextId, caps, unsubbed>>

\* subscribe(listener): listeners.add(listener); returns a new closure.
subscribe(l) ==
    /\ Caller
    /\ Len(caps) < MaxCaps
    /\ listeners' = SetAdd(listeners, l)
    /\ caps' = Append([c \in 1..Len(caps) |->
                          IF caps[c].l = l /\ caps[c].used
                          THEN [caps[c] EXCEPT !.resub = TRUE] ELSE caps[c]],
                      [l |-> l, used |-> FALSE, resub |-> FALSE])
    /\ unsubbed' = unsubbed \ {l}
    /\ lastOp' = [op |-> "subscribe", l |-> l, c |-> Len(caps) + 1,
                  again |-> FALSE, resub |-> FALSE, tick |-> ~lastOp.tick]
    /\ stack' = Disturb(stack)
    /\ exc' = "none"
    /\ top' = IF stack = <<>> THEN [NoTop EXCEPT !.op = "subscribe"] ELSE top
    /\ log' = IF stack = <<>> THEN <<>> ELSE Append(log, Event("op", Top.l))
    /\ done' = IF stack = <<>> THEN NoDone ELSE done
    /\ UNCHANGED <<ext, chain, hasPipe, storeDispatch, currentState, isReducing,
                   nextId>>

\* The closure returned by subscribe: listeners.delete(listener).
unsubscribe(c) ==
    /\ Caller
    /\ c \in 1..Len(caps)
    /\ listeners' = SetDelete(listeners, caps[c].l)
    /\ caps' = [caps EXCEPT ![c].used = TRUE, ![c].resub = FALSE]
    /\ unsubbed' = unsubbed \cup {caps[c].l}
    /\ lastOp' = [op |-> "unsubscribe", l |-> caps[c].l, c |-> c,
                  again |-> caps[c].used, resub |-> caps[c].resub,
                  tick |-> ~lastOp.tick]
    /\ stack' = Disturb(stack)
    /\ exc' = "none"
    /\ top' = IF stack = <<>> THEN [NoTop EXCEPT !.op = "unsubscribe"] ELSE top
    /\ log' = IF stack = <<>> THEN <<>> ELSE Append(log, Event("op", Top.l))
    /\ done' = IF stack = <<>> THEN NoDone ELSE done
    /\ UNCHANGED <<ext, chain, hasPipe, storeDispatch, currentState, isReducing,
                   nextId>>

\* ------------------------------------------------------------------ pipeline
\* The dispatch a middleware receives in its capability object: a callable
\* is invoked with (dispatch, getState), a plain action goes to dispatch.
capDispatch(a) == IF IsFunction(a) THEN ThunkFrame(a) ELSE dispatchVar(a)

\* One middleware layer receives the action.
MwEnter ==
    /\ stack # <<>> /\ exc = "none"
    /\ Top.t = "mw" /\ Top.pc = "before"
    /\ \/ /\ chain[Top.i] = "pass"
          /\ log' = Append(Append(log, Event("before", Top.i)),
                            Event("next", Top.i))
          /\ stack' = Append(ReplaceTop([Top EXCEPT !.pc = "after"]),
                             NextOf(Top.i, Top.a))
       \/ /\ chain[Top.i] = "thunk"
          /\ IsFunction(Top.a)
          /\ log' = Append(log, Event("thunk", Top.i))
          /\ stack' = Append(ReplaceTop([Top EXCEPT !.pc = "ret"]),
                             ThunkFrame(Top.a))
       \/ /\ chain[Top.i] = "thunk"
          /\ ~IsFunction(Top.a)
          /\ log' = Append(log, Event("next", Top.i))
          /\ stack' = Append(ReplaceTop([Top EXCEPT !.pc = "ret"]),
                             NextOf(Top.i, Top.a))
    /\ UNCHANGED <<ext, chain, hasPipe, storeDispatch, currentState, listeners,
                   isReducing, nextId, caps, exc, top, done, unsubbed, lastOp>>

\* The layer's callee has returned: run the code after next(action), return.
MwReturn ==
    /\ stack # <<>> /\ exc = "none"
    /\ Top.t = "mw" /\ Top.pc \in {"after", "ret"}
    /\ log' = IF Top.pc = "after" THEN Append(log, Event("after", Top.i)) ELSE log
    /\ stack' = Pop
    /\ UNCHANGED <<ext, chain, hasPipe, storeDispatch, currentState, listeners,
                   isReducing, nextId, caps, exc, top, done, unsubbed, lastOp>>

\* A thunk body: dispatches its plain actions one after the other.
ThunkStep ==
    /\ stack # <<>> /\ exc = "none"
    /\ Top.t = "thunk"
    /\ Top.i <= Len(Top.a.body) => Top.a.body[Top.i] # Await
    /\ IF Top.i > Len(Top.a.body)
       THEN stack' = Pop
       ELSE stack' = Append(ReplaceTop([Top EXCEPT !.i = @ + 1]),
                            capDispatch(Top.a.body[Top.i]))
    /\ UNCHANGED <<ext, chain, hasPipe, storeDispatch, currentState, listeners,
                   isReducing, nextId, caps, exc, top, log, done, unsubbed,
                   lastOp>>

\* A guard that never rejects.
GuardNeverRejects == FALSE

\* if (isReducing) throw ...
GuardRejects == isReducing

\* guardedDispatch up to the call of store.dispatch.
guardedDispatch ==
    /\ stack # <<>> /\ exc = "none"
    /\ Top.t = "guarded" /\ Top.pc = "enter"
    /\ IF GuardRejects
       THEN /\ exc' = "reentrancy"
            /\ stack' = Pop
            /\ UNCHANGED isReducing
       ELSE /\ isReducing' = TRUE
            /\ stack' = Append(ReplaceTop([Top EXCEPT !.pc = "called"]),
                               StoreDispatch(Top.a))
            /\ UNCHANGED exc
    /\ UNCHANGED <<ext, chain, hasPipe, storeDispatch, currentState, listeners,
                   nextId, caps, top, log, done, unsubbed, lastOp>>

\* guardedDispatch: store.dispatch returned, the finally block runs.
guardedFinally ==
    /\ stack # <<>> /\ exc = "none"
    /\ Top.t = "guarded" /\ Top.pc = "called"
    /\ isReducing' = FALSE
    /\ stack' = Pop
    /\ UNCHANGED <<ext, chain, hasPipe, storeDispatch, currentState, listeners,
                   nextId, caps, exc, top, log, done, unsubbed, lastOp>>

\* A guardedDispatch without its finally block: the flag stays as it is.
FinallyKeepsFlag(f) == isReducing

\* The flag after an error has left frame f: guardedDispatch's finally
\* block clears it, no other function touches it.
FinallyFlag(f) == IF f.t = "guarded" THEN FALSE ELSE isReducing

\* An error leaves the innermost frame; no frame catches it, and the finally
\* block of guardedDispatch runs on the way out.
Unwind ==
    /\ stack # <<>> /\ exc # "none"
    /\ isReducing' = FinallyFlag(Top)
    /\ stack' = Pop
    /\ UNCHANGED <<ext, chain, hasPipe, storeDispatch, currentState, listeners,
                   nextId, caps, exc, top, log, done, unsubbed, lastOp>>

\* --------------------------------------------------------------- store core
\* A reducer that is not pure: while a guarded call is running it, it calls
\* the pipeline's dispatch (once: the error of the first call leaves it).
ReducerDispatch(a) ==
    /\ stack # <<>> /\ exc = "none"
    /\ Top.t = "base" /\ Top.pc = "reduce"
    /\ Top.ops = 0
    /\ isReducing
    /\ Count("base") <= MaxNest
    /\ stack' = Append(ReplaceTop([Top EXCEPT !.ops = @ + 1, !.arg = currentState]),
                       dispatch(a))
    /\ log' = Append(log, Event("reenter", 0))
    /\ UNCHANGED <<ext, chain, hasPipe, storeDispatch, currentState, listeners,
                   isReducing, nextId, caps, exc, top, done, unsubbed, lastOp>>

\* baseDispatch: nextState = reducer(currentState, action); when it is not
\* deepEqual to currentState the cell is replaced and the forEach starts.
baseDispatch ==
    /\ stack # <<>> /\ exc = "none"
    /\ Top.t = "base" /\ Top.pc = "reduce"
    /\ ~Throws(Top.a)
    /\ Allocates(Top.a) => nextId <= MaxAlloc + 1
    /\ LET given == IF Top.ops > 0 THEN Top.arg ELSE currentState
           nextState == reducer(given, Top.a, nextId)
           h == [pre |-> currentState, res |-> nextState,
                 reg |-> SetValues(listeners), invoked |-> <<>>,
                 quiet |-> Top.ops = 0]
       IN /\ nextId' = IF Allocates(Top.a) THEN nextId + 1 ELSE nextId
          /\ log' = Append(log, Event("reduce", IF IsFunction(Top.a) THEN 1 ELSE 0))
          /\ IF ~deepEqual(nextState, currentState)
             THEN /\ currentState' = nextState
                  /\ stack' = ReplaceTop([Top EXCEPT !.pc = "notify", !.i = 1,
                                                     !.h = h])
                  /\ UNCHANGED done
             ELSE /\ UNCHANGED currentState
                  /\ stack' = Pop
                  /\ done' = [a |-> Top.a, pre |-> h.pre, res |-> h.res,
                              post |-> currentState, reg |-> h.reg,
                              invoked |-> <<>>, quiet |-> h.quiet,
                              valid |-> TRUE]
    /\ UNCHANGED <<ext, chain, hasPipe, storeDispatch, listeners, isReducing, caps,
                   exc, top, unsubbed, lastOp>>

\* Walking a copy of the Set taken when the pass started.
ForEachSnapshot(f) == f.h.reg

\* Only the outermost dispatch notifies: nested passes are dropped.
ForEachOutermost(f) == IF Count("base") > 1 THEN <<>> ELSE listeners

\* The entry list listeners.forEach walks: the live Set, so that entries
\* deleted before their turn are skipped and entries added are reached.
ForEachList(f) == listeners

\* The state the dispatch started from, as if notified before the swap.
NotifyArgStale(f) == f.h.pre

\* The reducer's result held by this dispatch: listener(nextState).
NotifyArgNextState(f) == f.h.res

\* The argument of listener(currentState): the cell as it is at the call.
NotifyArg(f) == currentState

\* One step of listeners.forEach in baseDispatch.
forEach ==
    /\ stack # <<>> /\ exc = "none"
    /\ Top.t = "base" /\ Top.pc = "notify"
    /\ LET entries == ForEachList(Top)
       IN IF Top.i > Len(entries)
          THEN /\ stack' = Pop
               /\ done' = [a |-> Top.a, pre |-> Top.h.pre, res |-> Top.h.res,
                           post |-> currentState, reg |-> Top.h.reg,
                           invoked |-> Top.h.invoked, quiet |-> Top.h.quiet,
                           valid |-> TRUE]
               /\ UNCHANGED log
          ELSE IF entries[Top.i] = Empty
          THEN /\ stack' = ReplaceTop([Top EXCEPT !.i = @ + 1])
               /\ UNCHANGED <<done, log>>
          ELSE LET l == entries[Top.i]
                   arg == NotifyArg(Top)
               IN /\ stack' = Append(
                        ReplaceTop([Top EXCEPT !.i = @ + 1,
                                      !.h.invoked = Append(@, <<l, arg>>)]),
                        ListenerFrame(l, arg))
                  /\ log' = Append(log, Event("listener", l))
                  /\ UNCHANGED done
    /\ UNCHANGED <<ext, chain, hasPipe, storeDispatch, currentState, listeners,
                   isReducing, nextId, caps, exc, top, unsubbed, lastOp>>

\* The listener function returns.
ListenerReturn ==
    /\ stack # <<>> /\ exc = "none"
    /\ Top.t = "listener"
    /\ stack' = Pop
    /\ UNCHANGED <<ext, chain, hasPipe, storeDispatch, currentState, listeners,
                   isReducing, nextId, caps, exc, top, log, done, unsubbed,
                   lastOp>>

\* ------------------------------------------------------- construction phase
\* What a middleware constructor may pass to its capability dispatch.
CtorActions == {PlainAction("inc", 0), ThunkAction(<<>>),
                ThunkAction(<<PlainAction("inc", 0)>>)}

CtorFrame(a) == Frame("ctor", a, "called", built + 1, 0, NoState, NoHist)

\* applyMiddleware has returned the composed dispatch.
Constructed == dispatchRef = "composed"

\* middlewares.map: the next constructor runs; it either only returns its
\* layer or first calls the dispatch of its capability object.
mapMiddleware ==
    /\ stack = <<>> /\ exc = "none"
    /\ dispatchRef = "placeholder"
    /\ built < Len(chain)
    /\ \/ /\ built' = built + 1
          /\ UNCHANGED stack
       \/ /\ \E a \in CtorActions : stack' = <<CtorFrame(a), capDispatch(a)>>
          /\ UNCHANGED built
    /\ top' = [NoTop EXCEPT !.op = "construct"]
    /\ log' = <<>>
    /\ UNCHANGED <<cmp, dispatchRef, timers, cells, isoCaps, isoLast, chain, hasPipe,
                   storeDispatch, currentState, listeners, isReducing, nextId,
                   caps, exc, done, unsubbed, lastOp>>

\* The placeholder dispatch is invoked.
placeholder ==
    /\ stack # <<>> /\ exc = "none"
    /\ Top.t = "placeholder"
    /\ IF PlaceholderThrows
       THEN /\ exc' = "construction"
            /\ stack' = Pop
       ELSE /\ stack' = ReplaceTop(GuardedFrame(Top.a))
            /\ UNCHANGED exc
    /\ UNCHANGED <<ext, chain, hasPipe, storeDispatch, currentState, listeners,
                   isReducing, nextId, caps, top, log, done, unsubbed, lastOp>>

\* The constructor's call of the capability dispatch returned: it returns
\* its layer.
constructorReturn ==
    /\ stack # <<>> /\ exc = "none"
    /\ Top.t = "ctor"
    /\ stack' = Pop
    /\ built' = built + 1
    /\ UNCHANGED <<cmp, dispatchRef, timers, cells, isoCaps, isoLast, chain, hasPipe,
                   storeDispatch, currentState, listeners, isReducing, nextId,
                   caps, exc, top, log, done, unsubbed, lastOp>>

\* dispatch = chain.reduceRight(...); return dispatch.  When createStore made
\* the call (middlewares.length > 0) the result is assigned to store.dispatch.
compose ==
    /\ stack = <<>> /\ exc = "none"
    /\ dispatchRef = "placeholder"
    /\ built = Len(chain)
    /\ dispatchRef' = "composed"
    /\ hasPipe' = TRUE
    /\ \/ storeDispatch' = "base"
       \/ /\ Len(chain) > 0
          /\ storeDispatch' = "pipe"
    /\ UNCHANGED <<cmp, built, timers, cells, isoCaps, isoLast, chain, currentState,
                   listeners, isReducing, nextId, caps, stack, exc, top, log,
                   done, unsubbed, lastOp>>

\* -------------------------------------------------- further middleware kinds
\*   adder : ({dispatch}) => (next) => (action) =>
\*             { if (action.type === "inc") dispatch({type: "add", payload: 1});
\*               return next(action) }
\*   block : () => () => () => {}
\*   twice : () => (next) => (action) => { next(action); next(action) }
MwDispatches ==
    /\ stack # <<>> /\ exc = "none"
    /\ Top.t = "mw" /\ chain[Top.i] = "adder"
    /\ \/ /\ Top.pc = "before" /\ Top.a.type = "inc"
          /\ log' = Append(log, Event("cap", Top.i))
          /\ stack' = Append(ReplaceTop([Top EXCEPT !.pc = "fwd"]),
                             capDispatch(PlainAction("add", 1)))
       \/ /\ Top.pc = "fwd" \/ (Top.pc = "before" /\ Top.a.type # "inc")
          /\ log' = Append(log, Event("next", Top.i))
          /\ stack' = Append(ReplaceTop([Top EXCEPT !.pc = "ret"]),
                             NextOf(Top.i, Top.a))
    /\ UNCHANGED <<ext, chain, hasPipe, storeDispatch, currentState, listeners,
                   isReducing, nextId, caps, exc, top, done, unsubbed, lastOp>>

MwBlocks ==
    /\ stack # <<>> /\ exc = "none"
    /\ Top.t = "mw" /\ chain[Top.i] = "block"
    /\ stack' = Pop
    /\ UNCHANGED <<ext, chain, hasPipe, storeDispatch, currentState, listeners,
                   isReducing, nextId, caps, exc, top, log, done, unsubbed,
                   lastOp>>

MwNextTwice ==
    /\ stack # <<>> /\ exc = "none"
    /\ Top.t = "mw" /\ chain[Top.i] = "twice"
    /\ Top.pc \in {"before", "again"}
    /\ log' = Append(log, Event("next", Top.i))
    /\ stack' = Append(ReplaceTop([Top EXCEPT !.pc = IF Top.pc = "before"
                                                      THEN "again" ELSE "ret"]),
                       NextOf(Top.i, Top.a))
    /\ UNCHANGED <<ext, chain, hasPipe, storeDispatch, currentState, listeners,
                   isReducing, nextId, caps, exc, top, done, unsubbed, lastOp>>

\* ------------------------------------------------------------ failing reducer
\* baseDispatch when reducer(currentState, action) throws: the error leaves
\* baseDispatch before the comparison and the assignment.
reducerThrows ==
    /\ stack # <<>> /\ exc = "none"
    /\ Top.t = "base" /\ Top.pc = "reduce"
    /\ Throws(Top.a)
    /\ exc' = "reducer"
    /\ stack' = Pop
    /\ log' = Append(log, Event("reduce", 0))
    /\ UNCHANGED <<ext, chain, hasPipe, storeDispatch, currentState, listeners,
                   isReducing, nextId, caps, top, done, unsubbed, lastOp>>

\* ------------------------------------------------------- asynchronous thunks
\* async (dispatch) => { await timer; dispatch({type: "inc"}) }
AsyncThunks == {ThunkAction(<<Await, PlainAction("inc", 0)>>)}

HasAwait(a) == \E k \in 1..Len(a.body) : a.body[k] = Await

\* The thunk reaches an await: the call returns a promise to its caller and
\* the rest of the body waits for the timer.
ThunkAwait ==
    /\ stack # <<>> /\ exc = "none"
    /\ Top.t = "thunk"
    /\ Top.i <= Len(Top.a.body)
    /\ Top.a.body[Top.i] = Await
    /\ timers' = Append(timers, [a |-> Top.a, i |-> Top.i + 1])
    /\ stack' = Pop
    /\ UNCHANGED <<cmp, dispatchRef, built, cells, isoCaps, isoLast, chain, hasPipe,
                   storeDispatch, currentState, listeners, isReducing, nextId,
                   caps, exc, top, log, done, unsubbed, lastOp>>

\* A timer fires while nothing else runs: the thunk continues on an empty
\* call stack.
ThunkResume(k) ==
    /\ stack = <<>>
    /\ k \in 1..Len(timers)
    /\ stack' = <<[ThunkFrame(timers[k].a) EXCEPT !.i = timers[k].i]>>
    /\ timers' = [j \in 1..(Len(timers) - 1) |->
                     IF j < k THEN timers[j] ELSE timers[j + 1]]
    /\ top' = [op |-> "resume", e |-> "pipe", a |-> timers[k].a,
               pre |-> currentState]
    /\ exc' = "none"
    /\ log' = <<>>
    /\ done' = NoDone
    /\ lastOp' = NoOp
    /\ UNCHANGED <<cmp, dispatchRef, built, cells, isoCaps, isoLast, chain, hasPipe,
                   storeDispatch, currentState, listeners, isReducing, nextId,
                   caps, unsubbed>>

Next ==
    \/ \E e \in Entries, a \in Actions : Dispatch(e, a)
    \/ \E l \in Listeners : subscribe(l)
    \/ \E c \in 1..MaxCaps : unsubscribe(c)
    \/ MwEnter
    \/ MwReturn
    \/ ThunkStep
    \/ guardedDispatch
    \/ guardedFinally
    \/ Unwind
    \/ \E a \in ListenerActions : ReducerDispatch(a)
    \/ baseDispatch
    \/ forEach
    \/ ListenerReturn

Spec == Init /\ [][Next]_vars

\* ------------------------------------------------- the engine from its start
\* applyMiddleware from its first line, followed by calls from outside code
\* only (listeners return without calling the store).
MaxTimers == 2         \* thunks suspended at the same time

ChainsExt == {<<"thunk">>, <<"pass", "adder">>, <<"block">>, <<"twice">>}
ExtActions == {PlainAction("inc", 0), PlainAction("boom", 0)} \cup AsyncThunks

InitExt ==
    /\ chain \in ChainsExt
    /\ currentState = initialState
    /\ listeners = <<>>
    /\ hasPipe = FALSE
    /\ storeDispatch = "base"
    /\ isReducing = FALSE
    /\ nextId = 2
    /\ caps = <<>>
    /\ stack = <<>>
    /\ exc = "none"
    /\ top = NoTop
    /\ log = <<>>
    /\ done = NoDone
    /\ unsubbed = {}
    /\ lastOp = NoOp
    /\ dispatchRef = "placeholder"
    /\ built = 0
    /\ timers = <<>>
    /\ cells = <<>>
    /\ isoCaps = <<>>
    /\ isoLast = NoIsoOp
    /\ cmp = NoCmp

\* Outside code calls dispatch once the pipeline exists.
OutsideDispatch(e, a) ==
    /\ stack = <<>>
    /\ Constructed
    /\ HasAwait(a) => Len(timers) < MaxTimers
    /\ Dispatch(e, a)

OutsideSubscribe(l) ==
    /\ stack = <<>>
    /\ Constructed
    /\ subscribe(l)

NextExt ==
    \/ mapMiddleware
    \/ placeholder
    \/ constructorReturn
    \/ compose
    \/ \E e \in Entries, a \in ExtActions : OutsideDispatch(e, a)
    \/ \E l \in Listeners : OutsideSubscribe(l)
    \/ \E k \in 1..MaxTimers : ThunkResume(k)
    \/ MwEnter
    \/ MwReturn
    \/ MwDispatches
    \/ MwBlocks
    \/ MwNextTwice
    \/ ThunkStep
    \/ ThunkAwait
    \/ guardedDispatch
    \/ guardedFinally
    \/ Unwind
    \/ reducerThrows
    \/ baseDispatch
    \/ forEach
    \/ ListenerReturn

SpecExt == InitExt /\ [][NextExt]_vars

\* ------------------------------------------------------------ several stores
\* Two createStore calls (no middleware); outside code calls the stores in
\* any order.  Each action is one whole call: listeners return without
\* calling a store.
Stores == {1, 2}

\* let currentState = initialState; const listeners = new Set()
newStore(s) == [currentState |-> Obj(s, 0), listeners |-> <<>>]

\* One cell and one listener Set at module level, shared by all stores.
SharedCell(s) == 1

\* The cell and Set a store's closures refer to: those of its own
\* createStore call.
CellOf(s) == s

InitIso ==
    /\ cells = [s \in Stores |-> newStore(s)]
    /\ isoCaps = <<>>
    /\ isoLast = NoIsoOp
    /\ cmp = NoCmp
    /\ nextId = Cardinality(Stores) + 1
    /\ chain = <<>>
    /\ hasPipe = FALSE
    /\ storeDispatch = "base"
    /\ currentState = initialState
    /\ listeners = <<>>
    /\ isReducing = FALSE
    /\ caps = <<>>
    /\ stack = <<>>
    /\ exc = "none"
    /\ top = NoTop
    /\ log = <<>>
    /\ done = NoDone
    /\ unsubbed = {}
    /\ lastOp = NoOp
    /\ dispatchRef = "composed"
    /\ built = 0
    /\ timers = <<>>

\* store.dispatch(action) of store s: baseDispatch with its notification pass.
isoDispatch(s, a) ==
    /\ Allocates(a) => nextId <= MaxAlloc + Cardinality(Stores)
    /\ LET c == CellOf(s)
           nextState == reducer(cells[c].currentState, a, nextId)
           called == SetValues(cells[c].listeners)
       IN IF ~deepEqual(nextState, cells[c].currentState)
          THEN /\ cells' = [cells EXCEPT ![c].currentState = nextState]
               /\ isoLast' = [op |-> "dispatch", s |-> s,
                              calls |-> [k \in 1..Len(called) |->
                                            <<called[k], nextState>>]]
          ELSE /\ UNCHANGED cells
               /\ isoLast' = [op |-> "dispatch", s |-> s, calls |-> <<>>]
    /\ nextId' = IF Allocates(a) THEN nextId + 1 ELSE nextId
    /\ UNCHANGED <<cmp, isoCaps, dispatchRef, built, timers, chain, hasPipe,
                   storeDispatch, currentState, listeners, isReducing, caps,
                   stack, exc, top, log, done, unsubbed, lastOp>>

\* store.subscribe(listener) of store s.
isoSubscribe(s, l) ==
    /\ Len(isoCaps) < MaxCaps
    /\ cells' = [cells EXCEPT ![CellOf(s)].listeners = SetAdd(@, l)]
    /\ isoCaps' = Append(isoCaps, [s |-> s, l |-> l])
    /\ isoLast' = [op |-> "subscribe", s |-> s, calls |-> <<>>]
    /\ UNCHANGED <<cmp, nextId, dispatchRef, built, timers, chain, hasPipe,
                   storeDispatch, currentState, listeners, isReducing, caps,
                   stack, exc, top, log, done, unsubbed, lastOp>>

\* An unsubscribe closure returned by a store's subscribe.
isoUnsubscribe(k) ==
    /\ k \in 1..Len(isoCaps)
    /\ cells' = [cells EXCEPT ![CellOf(isoCaps[k].s)].listeners =
                                  SetDelete(@, isoCaps[k].l)]
    /\ isoLast' = [op |-> "unsubscribe", s |-> isoCaps[k].s, calls |-> <<>>]
    /\ UNCHANGED <<cmp, isoCaps, nextId, dispatchRef, built, timers, chain, hasPipe,
                   storeDispatch, currentState, listeners, isReducing, caps,
                   stack, exc, top, log, done, unsubbed, lastOp>>

NextIso ==
    \/ \E s \in Stores, a \in PlainActions : isoDispatch(s, a)
    \/ \E s \in Stores, l \in Listeners : isoSubscribe(s, l)
    \/ \E k \in 1..MaxCaps : isoUnsubscribe(k)

SpecIso == InitIso /\ [][NextIso]_vars

\* ------------------------------------------------------- failing listeners
\* The engine from its start with listeners that may throw.
\* A forEach callback that catches what the listener throws.
ListenerErrorCaught == "none"

\* listener(currentState) is called with no try around it: what it throws
\* leaves the forEach callback, forEach and baseDispatch.
ListenerErrorPropagates == "listener"

\* The listener being invoked throws.  The pass it aborts is kept in done
\* (not valid: the pass did not complete).
ListenerThrows ==
    /\ stack # <<>> /\ exc = "none"
    /\ Top.t = "listener"
    /\ exc' = ListenerErrorPropagates
    /\ stack' = Pop
    /\ log' = Append(log, Event("throw", Top.l))
    /\ LET f == stack[Len(stack) - 1]
       IN done' = [a |-> f.a, pre |-> f.h.pre, res |-> f.h.res,
                   post |-> currentState, reg |-> f.h.reg,
                   invoked |-> f.h.invoked, quiet |-> f.h.quiet,
                   valid |-> FALSE]
    /\ UNCHANGED <<ext, chain, hasPipe, storeDispatch, currentState, listeners,
                   isReducing, nextId, caps, top, unsubbed, lastOp>>

NextErr ==
    \/ NextExt
    \/ ListenerThrows

SpecErr == InitExt /\ [][NextErr]_vars

\* ------------------------------------------------- one notification pass
\* A store without middleware whose listeners re-subscribe themselves while
\* they are being notified.
MaxEntries == 3        \* entries, deleted ones included, of the listener Set

InitPass ==
    /\ chain = <<>>
    /\ hasPipe = FALSE
    /\ storeDispatch = "base"
    /\ currentState = initialState
    /\ listeners = <<>>
    /\ isReducing = FALSE
    /\ nextId = 2
    /\ caps = <<>>
    /\ stack = <<>>
    /\ exc = "none"
    /\ top = NoTop
    /\ log = <<>>
    /\ done = NoDone
    /\ unsubbed = {}
    /\ lastOp = NoOp
    /\ dispatchRef = "composed"
    /\ built = 0
    /\ timers = <<>>
    /\ cells = <<>>
    /\ isoCaps = <<>>
    /\ isoLast = NoIsoOp
    /\ cmp = NoCmp

PassDispatch(a) ==
    /\ stack = <<>>
    /\ Dispatch("store", a)

PassSubscribe(l) ==
    /\ stack = <<>>
    /\ subscribe(l)

\* A listener that, when invoked, calls the unsubscribe it holds and
\* subscribes itself again, keeping the new unsubscribe in place of the old:
\* listeners.delete(listener) empties its entry, listeners.add(listener)
\* appends a new one.
resubscribeSelf ==
    /\ stack # <<>> /\ exc = "none"
    /\ Top.t = "listener" /\ Top.ops = 0
    /\ Len(listeners) < MaxEntries
    /\ listeners' = SetAdd(SetDelete(listeners, Top.l), Top.l)
    /\ stack' = Disturb(stack)
    /\ log' = Append(log, Event("op", Top.l))
    /\ lastOp' = [op |-> "subscribe", l |-> Top.l, c |-> 0, again |-> FALSE,
                  resub |-> TRUE, tick |-> ~lastOp.tick]
    /\ UNCHANGED <<ext, chain, hasPipe, storeDispatch, currentState, isReducing,
                   nextId, caps, exc, top, done, unsubbed>>

NextPass ==
    \/ \E a \in PlainActions : PassDispatch(a)
    \/ \E l \in Listeners : PassSubscribe(l)
    \/ resubscribeSelf
    \/ baseDispatch
    \/ forEach
    \/ ListenerReturn

SpecPass == InitPass /\ [][NextPass]_vars

\* ---------------------------------------------------------------- comparator
\* deepEqual on arbitrary values.  A value is a primitive or a reference to
\* an object of the heap; an object has a kind (its prototype), keys and
\* values.
Prim(v) == [ref |-> 0, v |-> v]
Ref(n) == [ref |-> n, v |-> 0]

\* Object.prototype.constructor, which every plain object inherits: a
\* function, so a value that is only equal to itself.
FunctionObject == Prim(100)
InheritedKeys == {"constructor"}

Arr(vals) == [kind |-> "Array", keys |-> <<>>, vals |-> vals]
Rec(keys, vals) == [kind |-> "Object", keys |-> keys, vals |-> vals]
SetOf(vals) == [kind |-> "Set", keys |-> <<>>, vals |-> vals]
MapOf(keys, vals) == [kind |-> "Map", keys |-> keys, vals |-> vals]
DateOf(t) == [kind |-> "Date", keys |-> <<>>, vals |-> <<Prim(t)>>]
RegExpOf(source, flags) == [kind |-> "RegExp", keys |-> <<source, flags>>, vals |-> <<>>]

\* The objects compared, in the shapes of the comparator's test suite, with
\* repeated references and self-references added.
heap == <<
    Rec(<<"a">>, <<Prim(1)>>),                          \*  1 {a: 1}
    Rec(<<"a">>, <<Prim(1)>>),                          \*  2 {a: 1}
    Rec(<<"a">>, <<Prim(2)>>),                          \*  3 {a: 2}
    Rec(<<"a">>, <<Prim(2)>>),                          \*  4 {a: 2}
    Rec(<<"a", "b">>, <<Prim(1), Prim(2)>>),            \*  5 {a: 1, b: 2}
    Rec(<<"b", "a">>, <<Prim(2), Prim(1)>>),            \*  6 {b: 2, a: 1}
    Rec(<<"constructor">>, <<FunctionObject>>),         \*  7 {constructor: Object}
    Rec(<<"b">>, <<Prim(2)>>),                          \*  8 {b: 2}
    Arr(<<Ref(1), Ref(1)>>),                            \*  9 [o1, o1]
    Arr(<<Ref(2), Ref(11)>>),                           \* 10 [o2, o11]
    Rec(<<"a">>, <<Prim(1)>>),                          \* 11 {a: 1}
    SetOf(<<Ref(1), Ref(3)>>),                          \* 12 Set[o1, o3]
    SetOf(<<Ref(4), Ref(2)>>),                          \* 13 Set[o4, o2]
    SetOf(<<Prim(1), Prim(2)>>),                        \* 14 Set[1, 2]
    SetOf(<<Prim(2), Prim(1)>>),                        \* 15 Set[2, 1]
    SetOf(<<Ref(1), Ref(2)>>),                          \* 16 Set[o1, o2]
    SetOf(<<Ref(11), Ref(3)>>),                         \* 17 Set[o11, o3]
    MapOf(<<Prim(1)>>, <<Ref(1)>>),                     \* 18 Map[1 -> o1]
    MapOf(<<Prim(1)>>, <<Ref(2)>>),                     \* 19 Map[1 -> o2]
    MapOf(<<Ref(1)>>, <<Prim(1)>>),                     \* 20 Map[o1 -> 1]
    MapOf(<<Ref(2)>>, <<Prim(2)>>),                     \* 21 Map[o2 -> 2]
    DateOf(5),                                          \* 22
    DateOf(5),                                          \* 23
    DateOf(6),                                          \* 24
    RegExpOf("x", "g"),                                 \* 25
    RegExpOf("x", "g"),                                 \* 26
    RegExpOf("x", "i"),                                 \* 27
    Rec(<<"self">>, <<Ref(28)>>),                       \* 28 a.self = a
    Rec(<<"self">>, <<Ref(29)>>),                       \* 29 b.self = b
    Rec(<<"self">>, <<Ref(31)>>),                       \* 30 c.self = d
    Rec(<<"self">>, <<Ref(30)>>),                       \* 31 d.self = c
    Rec(<<"self", "a">>, <<Ref(32), Prim(1)>>),         \* 32 e.self = e, e.a = 1
    Rec(<<"l", "r", "self">>, <<Ref(1), Ref(1), Ref(33)>>),   \* 33
    Rec(<<"l", "r", "self">>, <<Ref(2), Ref(11), Ref(34)>>),  \* 34
    Arr(<<Ref(35)>>),                                   \* 35 a[0] = a
    Arr(<<Ref(36)>>),                                   \* 36 b[0] = b
    Arr(<<>>),                                          \* 37 []
    Rec(<<>>, <<>>) >>                                  \* 38 {}

Nodes == 1..Len(heap)
Values == {Prim(1), Prim(2), FunctionObject} \cup {Ref(n) : n \in Nodes}

\* Object.is on two values: the same primitive or the same reference.
ObjectIsValue(a, b) == a = b

\* key in obj: an own key, or one found on Object.prototype.
HasKey(o, key) ==
    \/ \E k \in 1..Len(o.keys) : o.keys[k] = key
    \/ o.kind = "Object" /\ key \in InheritedKeys

\* obj[key]
GetKey(o, key) ==
    IF \E k \in 1..Len(o.keys) : o.keys[k] = key
    THEN o.vals[CHOOSE k \in 1..Len(o.keys) : o.keys[k] = key]
    ELSE FunctionObject

\* new WeakMap(): no object has an entry (0 stands for undefined).
NoSeen == [n \in Nodes |-> 0]

Answer(r, seen) == [r |-> r, seen |-> seen]

RECURSIVE deepEqualSeen(_, _, _)
RECURSIVE arrayLoop(_, _, _, _)
RECURSIVE setLoop(_, _, _, _)
RECURSIVE setFind(_, _, _, _)
RECURSIVE mapLoop(_, _, _, _)
RECURSIVE mapFind(_, _, _, _, _)
RECURSIVE keysLoop(_, _, _, _)

\* for (let i = 0; i < lenA; i++) if (!deepEqual(arrA[i], arrB[i], seen)) ...
arrayLoop(A, B, i, seen) ==
    IF i > Len(A.vals) THEN Answer(TRUE, seen)
    ELSE LET x == deepEqualSeen(A.vals[i], B.vals[i], seen)
         IN IF ~x.r THEN Answer(FALSE, x.seen)
            ELSE arrayLoop(A, B, i + 1, x.seen)

\* for (const bv of setB) if (deepEqual(av, bv, seen)) { found = true; break }
setFind(av, B, j, seen) ==
    IF j > Len(B.vals) THEN Answer(FALSE, seen)
    ELSE LET x == deepEqualSeen(av, B.vals[j], seen)
         IN IF x.r THEN Answer(TRUE, x.seen)
            ELSE setFind(av, B, j + 1, x.seen)

\* for (const av of setA) { ...; if (!found) return false }
setLoop(A, B, i, seen) ==
    IF i > Len(A.vals) THEN Answer(TRUE, seen)
    ELSE LET f == setFind(A.vals[i], B, 1, seen)
         IN IF ~f.r THEN Answer(FALSE, f.seen)
            ELSE setLoop(A, B, i + 1, f.seen)

\* for (const [bk, bv] of mapB)
\*   if (deepEqual(ak, bk, seen) && deepEqual(av, bv, seen)) ...
mapFind(ak, av, B, j, seen) ==
    IF j > Len(B.vals) THEN Answer(FALSE, seen)
    ELSE LET x == deepEqualSeen(ak, B.keys[j], seen)
             y == deepEqualSeen(av, B.vals[j], x.seen)
         IN IF ~x.r THEN mapFind(ak, av, B, j + 1, x.seen)
            ELSE IF y.r THEN Answer(TRUE, y.seen)
            ELSE mapFind(ak, av, B, j + 1, y.seen)

mapLoop(A, B, i, seen) ==
    IF i > Len(A.vals) THEN Answer(TRUE, seen)
    ELSE LET f == mapFind(A.keys[i], A.vals[i], B, 1, seen)
         IN IF ~f.r THEN Answer(FALSE, f.seen)
            ELSE mapLoop(A, B, i + 1, f.seen)

\* for (const key of keysA) { if (!(key in objB)) ...; if (!deepEqual(...)) ... }
\* and, after the loop, keysA.length !== keysB.length.
keysLoop(A, B, i, seen) ==
    IF i > Len(A.keys) THEN Answer(Len(A.keys) = Len(B.keys), seen)
    ELSE IF ~HasKey(B, A.keys[i]) THEN Answer(FALSE, seen)
    ELSE LET x == deepEqualSeen(A.vals[i], GetKey(B, A.keys[i]), seen)
         IN IF ~x.r THEN Answer(FALSE, x.seen)
            ELSE keysLoop(A, B, i + 1, x.seen)

\* deepEqual(a, b, seen): the result, and the memo as the call leaves it.
deepEqualSeen(a, b, seen) ==
    IF ObjectIsValue(a, b) THEN Answer(TRUE, seen)
    ELSE IF a.ref = 0 \/ b.ref = 0 THEN Answer(FALSE, seen)
    ELSE IF heap[a.ref].kind # heap[b.ref].kind THEN Answer(FALSE, seen)
    ELSE IF seen[a.ref] = b.ref THEN Answer(TRUE, seen)
    ELSE IF seen[a.ref] # 0 THEN Answer(FALSE, seen)
    ELSE LET A == heap[a.ref]
             B == heap[b.ref]
             memo == [seen EXCEPT ![a.ref] = b.ref]
         IN CASE A.kind = "Array" ->
                   IF Len(A.vals) # Len(B.vals) THEN Answer(FALSE, memo)
                   ELSE arrayLoop(A, B, 1, memo)
              [] A.kind = "Date" -> Answer(A.vals = B.vals, memo)
              [] A.kind = "RegExp" -> Answer(A.keys = B.keys, memo)
              [] A.kind = "Set" ->
                   IF Len(A.vals) # Len(B.vals) THEN Answer(FALSE, memo)
                   ELSE setLoop(A, B, 1, memo)
              [] A.kind = "Map" ->
                   IF Len(A.vals) # Len(B.vals) THEN Answer(FALSE, memo)
                   ELSE mapLoop(A, B, 1, memo)
              [] OTHER -> keysLoop(A, B, 1, memo)

\* deepEqual(a, b) as callers use it: with a fresh memo.
deepEqualValues(a, b) == deepEqualSeen(a, b, NoSeen).r

InitEq ==
    /\ \E a \in Values, b \in Values :
          cmp = [NoCmp EXCEPT !.a = a, !.b = b, !.phase = "given"]
    /\ chain = <<>>
    /\ hasPipe = FALSE
    /\ storeDispatch = "base"
    /\ currentState = initialState
    /\ listeners = <<>>
    /\ isReducing = FALSE
    /\ nextId = 2
    /\ caps = <<>>
    /\ stack = <<>>
    /\ exc = "none"
    /\ top = NoTop
    /\ log = <<>>
    /\ done = NoDone
    /\ unsubbed = {}
    /\ lastOp = NoOp
    /\ dispatchRef = "composed"
    /\ built = 0
    /\ timers = <<>>
    /\ cells = <<>>
    /\ isoCaps = <<>>
    /\ isoLast = NoIsoOp

\* deepEqual(a, b) and deepEqual(b, a) are called.
compare ==
    /\ cmp.phase = "given"
    /\ cmp' = [cmp EXCEPT !.phase = "compared",
                          !.ab = deepEqualValues(cmp.a, cmp.b),
                          !.ba = deepEqualValues(cmp.b, cmp.a)]
    /\ UNCHANGED <<dispatchRef, built, timers, cells, isoCaps, isoLast, chain,
                   hasPipe, storeDispatch, currentState, listeners, isReducing,
                   nextId, caps, stack, exc, top, log, done, unsubbed, lastOp>>

NextEq == compare

SpecEq == InitEq /\ [][NextEq]_vars

\* ------------------------------------------------------------- observations
\* Comparator-equal state values: the same reference, or the same content.
ComparatorEqual(a, b) == a.id = b.id \/ a.count = b.count

\* No listener called the store and no reducer dispatched during the
\* outermost call.
Undisturbed == \A k \in 1..Len(log) : log[k].e \notin {"op", "reenter"}

ReduceCount == Len(SelectSeq(log, LAMBDA x : x.e = "reduce"))
MwTrace == SelectSeq(log, LAMBDA x : x.e \in {"before", "after", "reduce"})

\* The outermost call was a dispatch and has returned or thrown.
DispatchFinished == stack = <<>> /\ top.op = "dispatch"

\* The frame that called the innermost run of the pipeline: the nearest frame
\* below the top that is not a middleware layer.
CallerIndex ==
    LET below == {k \in 1..(Len(stack) - 1) : stack[k].t # "mw"}
    IN IF below = {} THEN 0 ELSE CHOOSE k \in below : \A j \in below : j <= k

ReducerRunning == \E k \in 1..Len(stack) : stack[k].t = "base" /\ stack[k].pc = "reduce"

\* A step that invokes a listener function.
ListenerInvoked ==
    /\ Len(stack') = Len(stack) + 1
    /\ stack'[Len(stack')].t = "listener"

\* A step that calls an unsubscribe closure.
UnsubscribeCalled == lastOp'.op = "unsubscribe" /\ lastOp'.tick # lastOp.tick

\* ------------------------------------------------------------------- claims
\* C1: on a store built by createStore with a non-empty middleware list whose
\* layers all forward, store.dispatch(plain action) raises no error and
\* applies reducer(currentState, action) exactly once; afterwards getState()
\* is the reducer's result and, when that result is not comparator-equal to
\* the previous state, the listeners have been notified.
C1_CreatedStoreDispatchApplies ==
    (DispatchFinished /\ storeDispatch = "pipe" /\ ~IsFunction(top.a) /\ Undisturbed)
    => /\ exc = "none"
       /\ ReduceCount = 1
       /\ done.valid /\ done.a = top.a /\ done.pre = top.pre
       /\ getState.count = reducer(top.pre, top.a, 0).count
       /\ ~ComparatorEqual(done.res, done.pre) => Len(done.invoked) = Len(done.reg)

\* C2: whenever baseDispatch finds reducer(currentState, action)
\* comparator-equal to the current state (same reference or a fresh equal
\* object), the state cell keeps the reference it had (done.post is
\* getState() when the call returns) and no listener is invoked; a
\* notification pass runs only for a result that is not equal.
C2_NoOpSuppression ==
    /\ (done.valid /\ ComparatorEqual(done.res, done.pre))
       => (done.post = done.pre /\ done.invoked = <<>>)
    /\ \A k \in 1..Len(stack) :
          (stack[k].t = "base" /\ stack[k].pc = "notify")
          => ~ComparatorEqual(stack[k].h.res, stack[k].h.pre)

C2_Witness ==
    /\ done.valid
    /\ done.a.type = "clone"
    /\ done.res.id # done.pre.id
    /\ SetMembers(listeners) # {}

C4_ListenerSeesUpdatedState ==
    (stack # <<>> /\ Top.t = "listener" /\ Top.ops = 0)
    => /\ Top.arg = getState
       /\ ~ObjectIs(getState, stack[Len(stack) - 1].h.pre)

\* A listener entered by an outer pass after a nested dispatch has replaced
\* the state the outer dispatch had produced.
C4_Witness ==
    /\ stack # <<>> /\ Top.t = "listener" /\ Top.ops = 0
    /\ stack[Len(stack) - 1].h.res # getState

\* C5: once the capability returned by subscribe(listener) has been invoked
\* (and the function has not been subscribed again), no dispatch invokes that
\* listener, the notification pass in flight included.
C5_UnsubscribeStopsNotifications ==
    [][ListenerInvoked => stack'[Len(stack')].l \notin unsubbed]_vars

\* A pass has completed in which a listener registered at the swap was
\* unsubscribed before its turn and was not invoked.
C5_Witness ==
    /\ done.valid
    /\ \E k \in 1..Len(done.reg) :
          /\ done.reg[k] \in unsubbed
          /\ \A j \in 1..Len(done.invoked) : done.invoked[j][1] # done.reg[k]

\* C6 as stated: a second or later call of an unsubscribe capability leaves
\* the listener set and the state unchanged, wherever in a sequence of
\* subscribe / unsubscribe / dispatch operations it happens.
C6_SecondUnsubscribeIsNoOp ==
    [][(UnsubscribeCalled /\ lastOp'.again)
       => (SetMembers(listeners') = SetMembers(listeners)
           /\ currentState' = currentState)]_vars

\* C6 amended: a second or later call of an unsubscribe capability leaves the
\* listener set and the state unchanged, provided the same listener function
\* has not been subscribed again since that capability's previous call.
C6_SecondUnsubscribeIsNoOpUnlessResubscribed ==
    [][(UnsubscribeCalled /\ lastOp'.again /\ ~lastOp'.resub)
       => (listeners' = listeners /\ currentState' = currentState)]_vars

\* A capability was called again, without a new subscription of its listener
\* in between, while another listener was registered.
C6_Witness ==
    /\ lastOp.op = "unsubscribe" /\ lastOp.again /\ ~lastOp.resub
    /\ SetMembers(listeners) # {}

\* C7: through a pipeline built from [A, B], an action both layers forward
\* gives the events A-before, B-before, reducer application, B-after,
\* A-after, in that order.
C7_OnionOrder ==
    (DispatchFinished /\ top.e = "pipe" /\ chain = <<"pass", "pass">>
       /\ ~IsFunction(top.a) /\ Undisturbed)
    => MwTrace = <<Event("before", 1), Event("before", 2), Event("reduce", 0),
                   Event("after", 2), Event("after", 1)>>

\* C8: a call that reaches guardedDispatch while an earlier guarded call is
\* still executing the reducer throws the re-entrancy error, and the nested
\* action is not applied: no baseDispatch ever runs above a running reducer.
C8_ReentrancyGuard ==
    /\ [][(stack # <<>> /\ Top.t = "guarded" /\ Top.pc = "enter" /\ ReducerRunning)
          => (exc' = "reentrancy" /\ currentState' = currentState
              /\ stack' = Pop)]_vars
    /\ [](\A j, k \in 1..Len(stack) :
             (j < k /\ stack[j].t = "base" /\ stack[j].pc = "reduce")
             => stack[k].t # "base")

\* The reducer's nested dispatch has just been rejected.
C8_Witness ==
    /\ exc = "reentrancy"
    /\ stack # <<>> /\ Top.t = "base" /\ Top.pc = "reduce" /\ Top.ops = 1
    /\ isReducing

\* C9: a listener that calls the pipeline's dispatch during a notification
\* pass, after the reducer has returned and the state has been swapped, is
\* not rejected by the re-entrancy guard.
C9_ListenerDispatchAccepted ==
    (/\ stack # <<>> /\ Top.t = "guarded" /\ Top.pc = "enter"
     /\ CallerIndex > 0 /\ stack[CallerIndex].t = "listener"
     /\ ~ReducerRunning)
    => ~isReducing

\* C10: in a pipeline whose middlewares are all pass-through layers, a thunk
\* given to the outer dispatch is never handed to the reducer as an action.
C10_ThunkNeverReduced ==
    (hasPipe /\ Len(chain) > 0 /\ \A i \in 1..Len(chain) : chain[i] = "pass")
    => \A k \in 2..Len(stack) :
          (stack[k].t = "base" /\ stack[k - 1].t = "guarded")
          => ~IsFunction(stack[k].a)

\* Number of plain "inc" actions a thunk's body dispatches.
BodyIncs(a) == Len(SelectSeq(a.body, LAMBDA x : x.type = "inc"))

ThunkCalls == Len(SelectSeq(log, LAMBDA x : x.e = "thunk"))

\* C11: with a pipeline that contains a middleware invoking callables with
\* its capability, dispatching a synchronous thunk raises no error, invokes
\* the thunk exactly once and, when the outer dispatch call returns, every
\* action the thunk dispatched has been applied ({count: 0} and a thunk
\* dispatching "inc" give {count: 1}).
C11_ThunkRoundTrip ==
    (/\ DispatchFinished /\ top.e = "pipe" /\ IsFunction(top.a)
     /\ \E i \in 1..Len(chain) : chain[i] = "thunk"
     /\ Undisturbed)
    => /\ exc = "none"
       /\ ThunkCalls = 1
       /\ getState.count = top.pre.count + BodyIncs(top.a)

\* C14: of two dispatches on one call stack the one issued first is fully
\* processed, reducer and whole notification pass, before the processing of
\* the second begins: no baseDispatch starts while the notification pass of
\* an earlier one is still in progress below it.
C14_FirstIssuedFullyProcessedFirst ==
    \A j, k \in 1..Len(stack) :
       (j < k /\ stack[j].t = "base" /\ stack[j].pc = "notify")
       => stack[k].t # "base"

\* Dispatches issued during the outermost call that change the count: the
\* outer action when it is "inc", and every dispatch issued by a listener.
IssuedIncs ==
    (IF top.a.type = "inc" THEN 1 ELSE 0)
    + Len(SelectSeq(log, LAMBDA x : x.e = "op"))

InvocationsOf(l) == Len(SelectSeq(log, LAMBDA x : x.e = "listener" /\ x.n = l))

\* The listeners a notification pass has invoked so far.
InvokedBy(f) == {f.h.invoked[k][1] : k \in 1..Len(f.h.invoked)}

\* C15: on a store without middleware, when listeners dispatch during their
\* own invocation (and none subscribes or unsubscribes), the outermost
\* dispatch returns without error, the state reflects every action issued,
\* and every registered listener has been invoked exactly once per accepted
\* state change.
C15_ListenerReentrancy ==
    (DispatchFinished /\ ~hasPipe /\ lastOp = NoOp)
    => /\ exc = "none"
       /\ getState.count = top.pre.count + IssuedIncs
       /\ \A l \in SetMembers(listeners) : InvocationsOf(l) = IssuedIncs

\* One listener of two dispatched "inc" when called by the outer "inc".
C15_Witness ==
    /\ DispatchFinished /\ ~hasPipe /\ lastOp = NoOp
    /\ top.a.type = "inc" /\ IssuedIncs = 2
    /\ Cardinality(SetMembers(listeners)) = 2
    /\ getState.count = top.pre.count + 2

\* C16: a listener is invoked only while it is a member of the Set, so one
\* unsubscribed before its turn is not invoked in the pass in flight; and
\* in every pass in flight each entry already passed that is still in the
\* Set has been invoked, so a removal after a listener's turn makes the
\* pass skip nobody.
C16_UnsubscribeDuringPass ==
    /\ (stack # <<>> /\ Top.t = "listener" /\ Top.ops = 0)
       => Top.l \in SetMembers(listeners)
    /\ \A k \in 1..Len(stack) :
          (stack[k].t = "base" /\ stack[k].pc = "notify")
          => \A j \in 1..Len(listeners) :
                (j < stack[k].i /\ listeners[j] # Empty)
                => listeners[j] \in InvokedBy(stack[k])

\* The second listener of a pass is entered after the first one, already
\* invoked in this pass, has been unsubscribed.
C16_Witness ==
    /\ Len(stack) >= 2 /\ Top.t = "listener" /\ Top.ops = 0
    /\ Len(stack[Len(stack) - 1].h.invoked) = 2
    /\ stack[Len(stack) - 1].h.invoked[1][1] \in unsubbed
    /\ stack[Len(stack) - 1].h.invoked[1][1] \notin SetMembers(listeners)

NoListenerInvoked == \A k \in 1..Len(log) : log[k].e # "listener"

\* Calls of next(action) made by layer i during the outermost call.
NextCalls(i) == Len(SelectSeq(log, LAMBDA x : x.e = "next" /\ x.n = i))

\* C12 as stated: whenever a middleware constructor's synchronous call of
\* its capability dispatch has ended, it has ended with the
\* construction-order error, and the reducer has not run and the state is
\* unchanged.
C12_ConstructionDispatchThrows ==
    (stack # <<>> /\ Top.t = "ctor")
    => /\ exc = "construction"
       /\ currentState = initialState
       /\ ReduceCount = 0

\* C12 amended: the call ends with the construction-order error when it was
\* given a plain action or a callable that itself dispatches; a callable
\* that does not dispatch is invoked and returns; in every case no reducer
\* runs and the state is unchanged while the chain is being built.
C12_ConstructionDispatchThrowsUnlessIdleCallable ==
    /\ (stack # <<>> /\ Top.t = "ctor")
       => exc = (IF IsFunction(Top.a) /\ Top.a.body = <<>>
                 THEN "none" ELSE "construction")
    /\ ~Constructed
       => /\ currentState = initialState
          /\ ReduceCount = 0
          /\ \A k \in 1..Len(stack) : stack[k].t \notin {"base", "guarded"}

\* The second constructor of a chain dispatched a plain action and got the
\* error.
C12_Witness ==
    /\ stack # <<>> /\ Top.t = "ctor" /\ ~IsFunction(Top.a)
    /\ built = 1
    /\ exc = "construction"

\* C13: when the reducer throws, the error propagates out of dispatch (and
\* out of the pipeline, whose guard is released), the state cell holds the
\* same object as before the call and no listener has been invoked.
C13_FailingReducer ==
    /\ exc = "reducer" => (getState = top.pre /\ NoListenerInvoked)
    /\ (DispatchFinished /\ top.a.type = "boom" /\ ReduceCount > 0)
       => (exc = "reducer" /\ ~isReducing)

\* The reducer threw, through a pipeline, on a store with listeners whose
\* state had been replaced before.
C13_Witness ==
    /\ DispatchFinished /\ top.a.type = "boom" /\ top.e = "pipe"
    /\ exc = "reducer"
    /\ top.pre.count = 1
    /\ SetMembers(listeners) # {}

\* C17: with the chain [pass, adder], the {add, 1} that the second layer
\* dispatches through its capability runs through the first layer as well
\* and is applied before the second layer forwards "inc": the events are
\* 1-before, 1-before, reduce, 1-after, reduce, 1-after and count 0 becomes 2.
C17_CapabilityDispatchReenters ==
    (DispatchFinished /\ top.e = "pipe" /\ chain = <<"pass", "adder">>
       /\ top.a.type = "inc")
    => /\ exc = "none"
       /\ MwTrace = <<Event("before", 1), Event("before", 1), Event("reduce", 0),
                      Event("after", 1), Event("reduce", 0), Event("after", 1)>>
       /\ getState.count = top.pre.count + 2

\* C18: in one outer dispatch of a plain action through a pipeline the
\* reducer is applied as many times as the last layer calls next: a layer
\* that never calls next leaves the state alone and no listener is invoked,
\* a layer that calls next twice applies "inc" twice.
C18_ReducerRunsOncePerNext ==
    (DispatchFinished /\ top.e = "pipe" /\ ~IsFunction(top.a) /\ Len(chain) > 0)
    => /\ ReduceCount = NextCalls(Len(chain))
       /\ chain = <<"block">> => (getState = top.pre /\ NoListenerInvoked)
       /\ (chain = <<"twice">> /\ top.a.type = "inc")
          => (exc = "none" /\ getState.count = top.pre.count + 2)

\* C19: when a suspended thunk has resumed and finished, its nested dispatch
\* has not been rejected by the guard, the action has been applied and every
\* listener has been notified once, whichever of the thunks in flight
\* resumed first.
C19_AsyncThunkDispatches ==
    (stack = <<>> /\ top.op = "resume")
    => /\ exc = "none"
       /\ getState.count = top.pre.count + BodyIncs(top.a)
       /\ \A l \in SetMembers(listeners) : InvocationsOf(l) = BodyIncs(top.a)

\* C20: a dispatch, subscribe or unsubscribe on one store leaves the state
\* cell and the listener set of every other store unchanged, and a dispatch
\* invokes only listeners registered on the store it was called on.
C20_StoreIsolation ==
    /\ [][\A t \in Stores : t # isoLast'.s => cells'[t] = cells[t]]_vars
    /\ [](\A k \in 1..Len(isoLast.calls) :
             isoLast.calls[k][1] \in SetMembers(cells[isoLast.s].listeners))

\* A dispatch on store 1 has notified its listener while store 2, already
\* changed by a dispatch of its own, has another listener.
C20_Witness ==
    /\ isoLast.op = "dispatch" /\ isoLast.s = 1
    /\ SetValues(cells[1].listeners) = <<1>>
    /\ SetValues(cells[2].listeners) = <<2>>
    /\ Len(isoLast.calls) = 1
    /\ cells[2].currentState.count = 1

Compared == cmp.phase = "compared"

\* C21: deepEqual(a, b) and deepEqual(b, a) give the same result.
C21_Symmetry == Compared => cmp.ab = cmp.ba

\* The compared values are two objects of the given kind.
ComparedKind(kind) ==
    /\ Compared
    /\ cmp.a.ref # 0 /\ cmp.b.ref # 0
    /\ heap[cmp.a.ref].kind = kind /\ heap[cmp.b.ref].kind = kind

\* Every element of A has some recursively equal element in B.
EveryElementHasCounterpart(A, B) ==
    \A i \in 1..Len(A.vals) : \E j \in 1..Len(B.vals) :
        deepEqualValues(A.vals[i], B.vals[j])

\* C22: deepEqual of two Sets is true exactly when they have the same size
\* and every element of the first has some recursively equal element in the
\* second, whatever the insertion order.
C22_SetUnordered ==
    ComparedKind("Set") =>
        cmp.ab = (/\ Len(heap[cmp.a.ref].vals) = Len(heap[cmp.b.ref].vals)
                  /\ EveryElementHasCounterpart(heap[cmp.a.ref], heap[cmp.b.ref]))

\* One step of structural comparison of a with b, the pairs of R taken as
\* equal: the same primitive, or objects of one kind whose parts pair up.
SamePartsUnder(R, a, b) ==
    IF a.ref = 0 \/ b.ref = 0 THEN a = b
    ELSE LET A == heap[a.ref]
             B == heap[b.ref]
             OwnKeys(o) == {o.keys[k] : k \in 1..Len(o.keys)}
         IN /\ A.kind = B.kind
            /\ CASE A.kind = "Array" ->
                      /\ Len(A.vals) = Len(B.vals)
                      /\ \A i \in 1..Len(A.vals) : <<A.vals[i], B.vals[i]>> \in R
                 [] A.kind = "Object" ->
                      /\ OwnKeys(A) = OwnKeys(B)
                      /\ \A i \in 1..Len(A.keys) :
                            <<A.vals[i], GetKey(B, A.keys[i])>> \in R
                 [] A.kind = "Date" -> A.vals = B.vals
                 [] A.kind = "RegExp" -> A.keys = B.keys
                 [] A.kind = "Set" ->
                      /\ Len(A.vals) = Len(B.vals)
                      /\ \A i \in 1..Len(A.vals) : \E j \in 1..Len(B.vals) :
                            <<A.vals[i], B.vals[j]>> \in R
                 [] OTHER ->
                      /\ Len(A.vals) = Len(B.vals)
                      /\ \A i \in 1..Len(A.vals) : \E j \in 1..Len(B.vals) :
                            /\ <<A.keys[i], B.keys[j]>> \in R
                            /\ <<A.vals[i], B.vals[j]>> \in R

RECURSIVE Refine(_)
Refine(R) ==
    LET S == {p \in R : SamePartsUnder(R, p[1], p[2])}
    IN IF S = R THEN R ELSE Refine(S)

\* The pairs of structurally identical values: the largest relation in which
\* related values have the same shape and related parts.
StructurallyIdentical == Refine(Values \X Values)

RECURSIVE ReachableFrom(_, _)
ReachableFrom(seenNodes, frontier) ==
    LET parts == UNION {{v.ref : v \in {heap[n].vals[i] : i \in 1..Len(heap[n].vals)}
                                        \cup (IF heap[n].kind = "Map"
                                              THEN {heap[n].keys[i] : i \in 1..Len(heap[n].keys)}
                                              ELSE {})}
                        : n \in frontier} \ {0}
        new == parts \ seenNodes
    IN IF new = {} THEN seenNodes \cup parts
       ELSE ReachableFrom(seenNodes \cup new, new)

\* The value refers, through its parts, to itself.
SelfReferential(v) == v.ref # 0 /\ v.ref \in ReachableFrom({}, {v.ref})

\* C23: a self-referential value compared with a structurally identical
\* value yields true, and compared with any other structure yields false
\* (the comparison terminates in either case).
C23_CycleSafety ==
    (Compared /\ SelfReferential(cmp.a) /\ cmp.b.ref # 0) =>
        cmp.ab = (<<cmp.a, cmp.b>> \in StructurallyIdentical)

\* C24: deepEqual of two plain records is true exactly when both have the
\* same set of own keys and the values under every key are recursively
\* equal, whatever the key order.
C24_PlainRecords ==
    ComparedKind("Object") =>
        LET A == heap[cmp.a.ref]
            B == heap[cmp.b.ref]
        IN cmp.ab = (/\ {A.keys[k] : k \in 1..Len(A.keys)}
                          = {B.keys[k] : k \in 1..Len(B.keys)}
                     /\ \A i \in 1..Len(A.keys) :
                           deepEqualValues(A.vals[i], GetKey(B, A.keys[i])))

\* C25: when a listener dispatches during a notification pass, every state
\* produced is still delivered: each invocation of a pass is handed the
\* state that pass's own dispatch produced, so no listener is handed the
\* nested dispatch's state twice in place of the outer one.
C25_EveryStateDelivered ==
    \A k \in 1..Len(stack) :
       (~hasPipe /\ stack[k].t = "base" /\ stack[k].pc = "notify")
       => \A j \in 1..Len(stack[k].h.invoked) :
             stack[k].h.invoked[j][2] = stack[k].h.res

\* C26: a single notification pass invokes each listener function at most
\* once, whatever subscribe and unsubscribe calls the listeners make during
\* the pass (a listener re-subscribing itself included).
C26_EachListenerOncePerPass ==
    \A k \in 1..Len(stack) :
       (stack[k].t = "base" /\ stack[k].pc = "notify")
       => \A i, j \in 1..Len(stack[k].h.invoked) :
             i # j => stack[k].h.invoked[i][1] # stack[k].h.invoked[j][1]

\* A guarded call is between its try and its finally.
GuardedRunning ==
    \E k \in 1..Len(stack) : stack[k].t = "guarded" /\ stack[k].pc = "called"

\* C27: the guard flag is cleared whenever no guarded dispatch is on the
\* call stack, in particular after an outer dispatch has returned or thrown
\* (reducer error, listener error, rejected nested dispatch); a guarded call
\* that arrives when none is running is therefore not rejected.
C27_GuardFlagCleared == ~GuardedRunning => ~isReducing

\* A dispatch through a pipeline has replaced the state a second time and
\* has ended with a listener's error; the flag is clear.
C27_Witness ==
    /\ stack = <<>> /\ ~isReducing
    /\ top.op = "dispatch" /\ top.e = "pipe"
    /\ exc = "listener"
    /\ currentState.count = 2

ListenerThrew == \E k \in 1..Len(log) : log[k].e = "throw"

\* C29: when a listener throws during a notification pass the error leaves
\* dispatch, the state cell holds the new value (no rollback), and nothing
\* runs after the throw: the listeners after the throwing one are not
\* invoked for that state change.
C29_ListenerErrorPropagates ==
    ListenerThrew
    => /\ exc = "listener"
       /\ log[Len(log)].e = "throw"
       /\ getState = done.res /\ ~ComparatorEqual(done.res, done.pre)
       /\ done.invoked[Len(done.invoked)][1] = log[Len(log)].n
       /\ stack = <<>> => ~isReducing

\* The first of two listeners threw; the dispatch has ended and the second
\* listener was not invoked.
C29_Witness ==
    /\ stack = <<>> /\ exc = "listener"
    /\ Len(SetValues(listeners)) = 2
    /\ Len(done.invoked) = 1
    /\ done.invoked[1][1] = SetValues(listeners)[1]
    /\ getState.count = top.pre.count + 1

\* C28: the listener Set holds each listener function at most once: a
\* function subscribed twice is invoked once per notification pass, and
\* after a call of either unsubscribe capability it is not in the Set.
C28_ListenerHeldOnce ==
    /\ \A i, j \in 1..Len(listeners) :
          (i # j /\ listeners[i] # Empty) => listeners[i] # listeners[j]
    /\ (done.valid /\ done.quiet)
       => \A i, j \in 1..Len(done.invoked) :
             i # j => done.invoked[i][1] # done.invoked[j][1]
    /\ lastOp.op = "unsubscribe" => lastOp.l \notin SetMembers(listeners)

\* A function subscribed twice, with both capabilities unused, has been
\* invoked once by a completed pass.
C28_Witness ==
    /\ stack = <<>> /\ done.valid /\ done.quiet
    /\ Len(caps) = 2 /\ caps[1].l = caps[2].l
    /\ ~caps[1].used /\ ~caps[2].used
    /\ Len(done.invoked) = 1
    /\ done.invoked[1][1] = caps[1].l

====
